---- MODULE Spec2Model ----
(***************************************************************************)
(* Subscription lifecycle and billing ledger engine of the ISP back        *)
(* office (backend/app.py, backend/engineer_routes.py,                     *)
(* backend/plan_expiry_checker.py, backend/models.py).                     *)
(*                                                                         *)
(* Dates stored as "YYYY-MM-DD" strings are the triples <<y, m, d>> of     *)
(* their zero-padded fields; string comparison of two such strings is the  *)
(* lexicographic comparison of the triples.  A datetime is a date plus a   *)
(* time of day, the index of one of the instants TimesOfDay; index 0 is    *)
(* the instant of midnight.  Money held in Float columns is counted in     *)
(* hundredths of a rupee; old_pending_amount is an Integer column of       *)
(* whole rupees.                                                           *)
(***************************************************************************)
EXTENDS Integers, Sequences, FiniteSets, TLC

\* ------------------------------------------------------------------------
\* Bounds of the model
\* ------------------------------------------------------------------------
MaxRequests == 3      \* requests served by the API in one behaviour
MaxUsers == 1         \* rows of the users table
MaxDays == 0          \* days the wall clock runs past StartDate
NumReqs == 2          \* concurrent renewal requests (SpecConc, SpecRace)

\* ------------------------------------------------------------------------
\* Input domains
\* ------------------------------------------------------------------------
StartDate == <<2023, 12, 31>>
TimesOfDay == <<"00:00:00", "12:00:00">>
SlotsPerDay == Len(TimesOfDay)
TzOffsets == { 0, 1 }
PlanIds == { "p1", "p2" }
UnknownPlan == "px"
PlanIdInputs == { "p2", UnknownPlan }
PlanUpdateInputs == { "p1", UnknownPlan }
Prices == { 33333 }
MonthsInputs == { -2, -1, 0, 1, 2, 12 }
PendingInputs == { -1, 200 }
PaymentStatuses == { "Pending", "VerifiedByCash", "VerifiedByUpi" }
PaymentStatusInputs == { "VerifiedByCash", "Bogus" }
Statuses == { "Pending Installation", "Installation Scheduled", "Active",
              "Expired", "Suspended" }
NoDate == << >>
None == "None"
NoInst == [status |-> None]
StatusInputs == { None, "Suspended" }
PlanChangeInputs == { None, "p2" }
ScheduleInputs == { <<2023, 12, 1>>, <<2025, 6, 1>> }
TaskStatusInputs == { "Installation Scheduled", "Completed" }
PlanStartInputs == { NoDate, <<2022, 12, 31>>, <<2024, 1, 31>> }
BillingStartInputs == { NoDate, <<2024, 1, 31>> }
DueDateInputs == { <<2024, 1, 15>> }
HistoryIdInputs == { 1, 2 }
HistoryUpdateInputs == { [new_old_pending_amount |-> 0, new_plan_id |-> "p1"] }

VARIABLES
    today,          \* local calendar date of the wall clock
    tod,            \* local time of day, index into TimesOfDay from 0
    tz,             \* offset of the local clock ahead of UTC, in instants
    plans,          \* broadband_plans table: id -> row
    users,          \* users table: sequence of rows, id = index
    installations,  \* installations table: user id -> row or NoInst
    invoices,       \* invoices table: sequence of rows, id = index
    ledger,         \* billing_history table: sequence of rows
    resp,           \* response to the last request served
    served,         \* number of requests served
    reqs            \* in-flight requests and sweeper run (SpecConc, SpecRace)

clock == <<today, tod, tz>>
db == <<plans, users, installations, invoices, ledger>>
vars == <<today, tod, tz, plans, users, installations, invoices,
          ledger, resp, served, reqs>>

\* ------------------------------------------------------------------------
\* Calendar
\* ------------------------------------------------------------------------
Min(a, b) == IF a < b THEN a ELSE b

IsLeap(y) == (y % 4 = 0 /\ y % 100 # 0) \/ y % 400 = 0

monthrange(y, m) ==
    IF m = 2 THEN (IF IsLeap(y) THEN 29 ELSE 28)
    ELSE IF m \in {4, 6, 9, 11} THEN 30 ELSE 31

NextDay(dt) ==
    IF dt[3] < monthrange(dt[1], dt[2]) THEN <<dt[1], dt[2], dt[3] + 1>>
    ELSE IF dt[2] < 12 THEN <<dt[1], dt[2] + 1, 1>>
    ELSE <<dt[1] + 1, 1, 1>>

PrevDay(dt) ==
    IF dt[3] > 1 THEN <<dt[1], dt[2], dt[3] - 1>>
    ELSE IF dt[2] > 1 THEN <<dt[1], dt[2] - 1, monthrange(dt[1], dt[2] - 1)>>
    ELSE <<dt[1] - 1, 12, 31>>

\* dt + timedelta(days=n), n >= 0: the days left in the month of dt are
\* taken at once, then the count goes on from the first of the next month
RECURSIVE timedelta_days(_, _)
timedelta_days(dt, n) ==
    LET left == monthrange(dt[1], dt[2]) - dt[3]
    IN  IF n <= left THEN <<dt[1], dt[2], dt[3] + n>>
        ELSE timedelta_days(NextDay(<<dt[1], dt[2], dt[3] + left>>),
                            n - left - 1)

\* variant: the day of month is kept without clamping to the target month
relativedelta_months_noclamp(dt, n) ==
    LET month0 == dt[2] + n
        year == IF month0 > 12 THEN dt[1] + 1
                ELSE IF month0 < 1 THEN dt[1] - 1 ELSE dt[1]
        month == IF month0 > 12 THEN month0 - 12
                 ELSE IF month0 < 1 THEN month0 + 12 ELSE month0
    IN  <<year, month, dt[3]>>

\* dateutil relativedelta(months=n) added to a date, 1 <= |n| <= 12
relativedelta_months(dt, n) ==
    LET month0 == dt[2] + n
        year == IF month0 > 12 THEN dt[1] + 1
                ELSE IF month0 < 1 THEN dt[1] - 1 ELSE dt[1]
        month == IF month0 > 12 THEN month0 - 12
                 ELSE IF month0 < 1 THEN month0 + 12 ELSE month0
    IN  <<year, month, Min(monthrange(year, month), dt[3])>>

\* comparison of two "YYYY-MM-DD" strings
StrLT(a, b) ==
    \/ a[1] < b[1]
    \/ a[1] = b[1] /\ a[2] < b[2]
    \/ a[1] = b[1] /\ a[2] = b[2] /\ a[3] < b[3]

StrLE(a, b) == a = b \/ StrLT(a, b)

\* datetime.strptime(s, "%Y-%m-%d"): the date at midnight
strptime(s) == [date |-> s, tod |-> 0]

\* dt.strftime("%Y-%m-%d"): the time of day is dropped
strftime(dt) == dt.date

datetime_now == [date |-> today, tod |-> tod]

datetime_lt(a, b) ==
    StrLT(a.date, b.date) \/ (a.date = b.date /\ a.tod < b.tod)

\* calendar date of datetime.utcnow()
utc_date ==
    IF tod - tz < 0 THEN PrevDay(today)
    ELSE IF tod - tz >= SlotsPerDay THEN NextDay(today)
    ELSE today

\* ------------------------------------------------------------------------
\* Initial state: empty tables, a plan catalog of two plans
\* ------------------------------------------------------------------------
NoResp == [op |-> None, user |-> 0, code |-> 0]

InitTables ==
    /\ today = StartDate
    /\ tod = 0
    /\ plans = [p \in PlanIds |->
                  [name |-> p, price |-> IF p = "p1" THEN 99900 ELSE 79900]]
    /\ users = << >>
    /\ installations = << >>
    /\ invoices = << >>
    /\ ledger = << >>
    /\ resp = NoResp
    /\ served = 0
    /\ reqs = << >>

\* the server's local clock is UTC
Init == InitTables /\ tz = 0

\* the server's local clock is UTC or ahead of UTC
InitLocal == InitTables /\ tz \in TzOffsets

\* the server's local clock is ahead of UTC
InitAhead == InitTables /\ tz = 1

UserIds == 1 .. Len(users)

\* db.query(BroadbandPlan).filter(BroadbandPlan.id == pid).first()
plan_exists(pid) == pid \in DOMAIN plans

\* the API serves MaxRequests requests in one behaviour
accepting == served < MaxRequests

\* a request is handled and answered with r
Serve(r) ==
    /\ served' = served + 1
    /\ resp' = r

\* the answer of a request that raises HTTPException(code)
Err(op, uid, code) == [op |-> op, user |-> uid, code |-> code]

\* a request that raises before any commit: the session is closed and
\* nothing it assigned reaches the tables
Reject(r) ==
    /\ Serve(r)
    /\ UNCHANGED <<clock, db, reqs>>

\* ------------------------------------------------------------------------
\* Wall clock
\* ------------------------------------------------------------------------
Tick ==
    /\ tod' = (tod + 1) % SlotsPerDay
    /\ today' = IF tod + 1 = SlotsPerDay THEN NextDay(today) ELSE today
    /\ StrLE(today', timedelta_days(StartDate, MaxDays))
    /\ UNCHANGED <<tz, db, resp, served, reqs>>

\* ------------------------------------------------------------------------
\* Onboarding
\* ------------------------------------------------------------------------
\* the row inserted by POST /api/users
admin_user(pid, plan_start) ==
    [ broadband_plan_id |-> pid,
      payment_status |-> "Pending",
      old_pending_amount |-> 0,
      payment_due_date |-> timedelta_days(plan_start, 15),
      plan_start_date |-> plan_start,
      plan_expiry_date |-> relativedelta_months(plan_start, 1),
      is_plan_active |-> TRUE,
      status |-> "Active",
      last_renewal_date |-> NoDate ]

\* POST /api/users (admin)
create_user ==
    /\ accepting
    /\ \E pid \in PlanIds, start_in \in PlanStartInputs :
      LET plan_start == IF start_in # NoDate THEN start_in ELSE today
      IN  /\ Len(users) < MaxUsers
          /\ users' = Append(users, admin_user(pid, plan_start))
          /\ installations' = Append(installations, NoInst)
          /\ Serve([op |-> "create_user", user |-> Len(users) + 1,
                    code |-> 200])
          /\ UNCHANGED <<clock, plans, invoices, ledger, reqs>>

\* POST /api/engineer/add-customer (engineer)
add_new_customer ==
    /\ accepting
    /\ \E pid \in DOMAIN plans :
      LET plan_start == today
          plan_expiry == relativedelta_months(plan_start, 1)
          payment_due == timedelta_days(plan_start, 15)
          new_user == [ broadband_plan_id |-> pid,
                        payment_status |-> "Pending",
                        old_pending_amount |-> 0,
                        payment_due_date |-> payment_due,
                        plan_start_date |-> plan_start,
                        plan_expiry_date |-> plan_expiry,
                        is_plan_active |-> FALSE,
                        status |-> "Pending Installation",
                        last_renewal_date |-> NoDate ]
      IN  /\ Len(users) < MaxUsers
          /\ users' = Append(users, new_user)
          /\ installations' = Append(installations, NoInst)
          /\ Serve([op |-> "add_new_customer", user |-> Len(users) + 1,
                    code |-> 200])
          /\ UNCHANGED <<clock, plans, invoices, ledger, reqs>>

\* ------------------------------------------------------------------------
\* Plan catalog
\* ------------------------------------------------------------------------
\* variant: invoices refer to the plan instead of holding a copy of its
\* name and price
update_plan_rewriting_invoices ==
    /\ accepting
    /\ \E pid \in PlanUpdateInputs, price \in Prices :
      IF ~plan_exists(pid)
      THEN Reject(Err("update_plan", 0, 404))
      ELSE /\ plans' = [plans EXCEPT ![pid].price = price]
           /\ invoices' = [i \in DOMAIN invoices |->
                             IF invoices[i].plan_id = pid
                             THEN [invoices[i] EXCEPT
                                     !.plan_price =
                                         price * invoices[i].months_renewed]
                             ELSE invoices[i]]
           /\ Serve([op |-> "update_plan", user |-> 0, code |-> 200])
           /\ UNCHANGED <<clock, users, installations, ledger, reqs>>

\* PUT /api/plans/{plan_id}
update_plan ==
    /\ accepting
    /\ \E pid \in PlanUpdateInputs, price \in Prices :
      IF ~plan_exists(pid)
      THEN Reject(Err("update_plan", 0, 404))
      ELSE /\ plans' = [plans EXCEPT ![pid].price = price]
           /\ Serve([op |-> "update_plan", user |-> 0, code |-> 200])
           /\ UNCHANGED <<clock, users, installations, invoices, ledger,
                          reqs>>

\* ------------------------------------------------------------------------
\* Administrative edits
\* ------------------------------------------------------------------------
\* PUT /api/users/{user_id}
update_user ==
    /\ accepting
    /\ \E uid \in 1 .. MaxUsers, status \in StatusInputs,
       pid \in PlanChangeInputs :
      IF uid \notin UserIds
      THEN Reject(Err("update_user", uid, 404))
      ELSE LET u1 == IF status # None
                     THEN [users[uid] EXCEPT !.status = status]
                     ELSE users[uid]
               u2 == IF pid # None
                     THEN [u1 EXCEPT !.broadband_plan_id = pid]
                     ELSE u1
           IN  /\ users' = [users EXCEPT ![uid] = u2]
               /\ Serve([op |-> "update_user", user |-> uid, code |-> 200])
               /\ UNCHANGED <<clock, plans, installations, invoices, ledger,
                              reqs>>

\* id given to the next billing_history row: one more than the largest id
\* in the table
next_history_id ==
    IF ledger = << >> THEN 1
    ELSE 1 + CHOOSE m \in { ledger[i].id : i \in DOMAIN ledger } :
                 \A i \in DOMAIN ledger : ledger[i].id <= m

\* variant: the schema puts no lower limit on old_pending_amount
BillingUpdate_valid_any_amount(payment_status, old_pending) ==
    payment_status \in PaymentStatuses

\* BillingUpdate schema: payment_status enum, old_pending_amount >= 0
BillingUpdate_valid(payment_status, old_pending) ==
    /\ payment_status \in PaymentStatuses
    /\ old_pending >= 0

\* PUT /api/users/{user_id}/billing; the answer is recorded with the plan
\* id, payment status and pending amount of the request body it answers
update_user_billing ==
    /\ accepting
    /\ \E uid \in 1 .. MaxUsers, pid \in PlanIdInputs,
       payment_status \in PaymentStatusInputs, old_pending \in PendingInputs,
       due \in DueDateInputs, start_in \in BillingStartInputs :
      LET billing_data == [ broadband_plan_id |-> pid,
                            payment_status |-> payment_status,
                            old_pending_amount |-> old_pending ]
      IN
      IF ~BillingUpdate_valid(payment_status, old_pending)
      THEN Reject(Err("update_user_billing", uid, 422) @@
                        [billing_data |-> billing_data])
      ELSE IF uid \notin UserIds
      THEN Reject(Err("update_user_billing", uid, 404) @@
                        [billing_data |-> billing_data])
      ELSE LET user == users[uid]
               old_plan == user.broadband_plan_id
               u1 == [user EXCEPT !.broadband_plan_id = pid,
                                  !.payment_status = payment_status,
                                  !.old_pending_amount = old_pending,
                                  !.payment_due_date = due]
               u2 == IF start_in # NoDate
                     THEN [u1 EXCEPT !.plan_start_date = start_in]
                     ELSE u1
               billing_record ==
                   [ id |-> next_history_id,
                     user_id |-> uid,
                     previous_payment_status |-> user.payment_status,
                     new_payment_status |-> payment_status,
                     previous_old_pending_amount |-> user.old_pending_amount,
                     new_old_pending_amount |-> old_pending,
                     previous_payment_due_date |-> user.payment_due_date,
                     new_payment_due_date |-> due,
                     previous_plan_id |->
                         IF plan_exists(old_plan) THEN old_plan ELSE None,
                     previous_plan_name |->
                         IF plan_exists(old_plan) THEN plans[old_plan].name
                         ELSE None,
                     new_plan_id |-> IF plan_exists(pid) THEN pid ELSE None,
                     new_plan_name |->
                         IF plan_exists(pid) THEN plans[pid].name ELSE None,
                     change_type |-> "billing_update" ]
           IN  /\ users' = [users EXCEPT ![uid] = u2]
               /\ ledger' = Append(ledger, billing_record)
               /\ Serve([op |-> "update_user_billing", user |-> uid,
                         code |-> 200, billing_data |-> billing_data])
               /\ UNCHANGED <<clock, plans, installations, invoices, reqs>>

\* positions of the billing_history rows with the given id
history_rows(history_id) ==
    { i \in DOMAIN ledger : ledger[i].id = history_id }

\* the record after setattr of every field set in the request body and the
\* refresh of the plan names for the plan ids given
updated_history_record(record, history_data) ==
    LET r1 == [f \in DOMAIN record |->
                 IF f \in DOMAIN history_data THEN history_data[f]
                 ELSE record[f]]
        r2 == IF "previous_plan_id" \in DOMAIN history_data
              THEN [r1 EXCEPT !.previous_plan_name =
                      IF plan_exists(history_data.previous_plan_id)
                      THEN plans[history_data.previous_plan_id].name
                      ELSE None]
              ELSE r1
    IN  IF "new_plan_id" \in DOMAIN history_data
        THEN [r2 EXCEPT !.new_plan_name =
                IF plan_exists(history_data.new_plan_id)
                THEN plans[history_data.new_plan_id].name
                ELSE None]
        ELSE r2

\* PUT /api/billing-history/{history_id}
update_billing_history ==
    /\ accepting
    /\ \E history_id \in HistoryIdInputs,
          history_data \in HistoryUpdateInputs :
         IF history_rows(history_id) = { }
         THEN Reject(Err("update_billing_history", 0, 404))
         ELSE LET i == CHOOSE i \in history_rows(history_id) : TRUE
              IN  /\ ledger' = [ledger EXCEPT ![i] =
                                  updated_history_record(ledger[i],
                                                         history_data)]
                  /\ Serve([op |-> "update_billing_history", user |-> 0,
                            code |-> 200, history_id |-> history_id])
                  /\ UNCHANGED <<clock, plans, users, installations,
                                 invoices, reqs>>

\* DELETE /api/billing-history/{history_id}
delete_billing_history ==
    /\ accepting
    /\ \E history_id \in HistoryIdInputs :
         IF history_rows(history_id) = { }
         THEN Reject(Err("delete_billing_history", 0, 404))
         ELSE LET i == CHOOSE i \in history_rows(history_id) : TRUE
              IN  /\ ledger' = [j \in 1 .. Len(ledger) - 1 |->
                                  IF j < i THEN ledger[j]
                                  ELSE ledger[j + 1]]
                  /\ Serve([op |-> "delete_billing_history", user |-> 0,
                            code |-> 200, history_id |-> history_id])
                  /\ UNCHANGED <<clock, plans, users, installations,
                                 invoices, reqs>>

\* ------------------------------------------------------------------------
\* Renewal and invoice generation
\* ------------------------------------------------------------------------
\* Python round(x, 2) of an amount given in ten-thousandths, as hundredths
round2(x) ==
    LET q == x \div 100
        r == x % 100
    IN  IF r < 50 THEN q
        ELSE IF r > 50 THEN q + 1
        ELSE IF q % 2 = 0 THEN q ELSE q + 1

\* variant: the monthly price is stored instead of the charge for all months
invoice_plan_price_monthly(price, months) == price

\* amounts of a renewal invoice, in hundredths
invoice_plan_price(price, months) == price * months

invoice_subtotal(price, months, old_pending) ==
    invoice_plan_price(price, months) + old_pending * 100

\* variant: the tax is truncated to the hundredth instead of rounded
invoice_gst_amount_truncated(subtotal) == (subtotal * 18) \div 100

invoice_gst_amount(subtotal) == round2(subtotal * 18)

invoice_total_amount(subtotal, gst_amount) ==
    round2((subtotal + gst_amount) * 100)

\* db.query(func.count(Invoice.id)).filter(
\*     func.date(Invoice.created_at) == today.date()).scalar()
invoice_count(day) ==
    Cardinality({ i \in DOMAIN invoices : invoices[i].created_at = day })

\* f"INV-{today:%Y%m%d}-{invoice_count + 1:04d}"
invoice_number_for(day, count) == <<day, count + 1>>

\* billing period label: "%B %Y" or "%b %Y - %b %Y"
billing_period_for(old_expiry, new_expiry, months) ==
    LET start_date == timedelta_days(strptime(old_expiry).date, 1)
    IN  IF months = 1
        THEN <<"%B %Y", start_date[1], start_date[2]>>
        ELSE <<"%b %Y - %b %Y", start_date[1], start_date[2],
               new_expiry.date[1], new_expiry.date[2]>>

\* variant: the comparison with the current time is reversed
reduction_below_now_reversed(months, new_expiry) ==
    months < 0 /\ datetime_lt(datetime_now, new_expiry)

\* the check "reducing below current date"
reduction_below_now(months, new_expiry) ==
    months < 0 /\ datetime_lt(new_expiry, datetime_now)

\* variant: every accepted renewal or reduction builds an invoice
generates_invoice_always(months) == months # 0

\* "Generate invoice for plan extensions (not reductions)"
generates_invoice(months) == months > 0

\* variant: the new expiry is not part of the committed subscriber row
renewed_user_stale_expiry(user, new_expiry) ==
    [user EXCEPT !.is_plan_active = TRUE,
                 !.status = "Active",
                 !.last_renewal_date = today]

\* variant: the pending amount billed in the invoice is cleared
renewed_user_clearing_pending(user, new_expiry) ==
    [user EXCEPT !.plan_expiry_date = strftime(new_expiry),
                 !.is_plan_active = TRUE,
                 !.status = "Active",
                 !.last_renewal_date = today,
                 !.old_pending_amount = 0]

\* variant: the renewal moves the expiry but does not re-activate
renewed_user_no_activation(user, new_expiry) ==
    [user EXCEPT !.plan_expiry_date = strftime(new_expiry),
                 !.last_renewal_date = today]

\* the subscriber row as assigned by a renewal
renewed_user(user, new_expiry) ==
    [user EXCEPT !.plan_expiry_date = strftime(new_expiry),
                 !.is_plan_active = TRUE,
                 !.status = "Active",
                 !.last_renewal_date = today]

\* the invoice row built by an extension
new_invoice_row(uid, user, months, new_expiry, count, pdf_filepath) ==
    LET plan == plans[user.broadband_plan_id]
        old_pending == user.old_pending_amount
        subtotal == invoice_subtotal(plan.price, months, old_pending)
        gst_amount == invoice_gst_amount(subtotal)
    IN  [ invoice_number |-> invoice_number_for(today, count),
          user_id |-> uid,
          plan_id |-> user.broadband_plan_id,
          plan_name |-> plan.name,
          plan_price |-> invoice_plan_price(plan.price, months),
          old_pending_amount |-> old_pending,
          subtotal |-> subtotal,
          gst_rate |-> 18,
          gst_amount |-> gst_amount,
          total_amount |-> invoice_total_amount(subtotal, gst_amount),
          payment_status |-> "Paid",
          invoice_date |-> today,
          due_date |-> strftime(new_expiry),
          billing_period |->
              billing_period_for(user.plan_expiry_date, new_expiry, months),
          months_renewed |-> months,
          old_expiry_date |-> user.plan_expiry_date,
          new_expiry_date |-> strftime(new_expiry),
          pdf_filepath |-> pdf_filepath,
          created_at |-> utc_date ]

\* POST /api/users/{user_id}/renew
renew_user_plan ==
    /\ accepting
    /\ \E uid \in 1 .. MaxUsers, months \in MonthsInputs, pdf_ok \in BOOLEAN :
      IF uid \notin UserIds
      THEN Reject(Err("renew_user_plan", uid, 404) @@
                        [months |-> months])
      ELSE IF months = 0
      THEN Reject(Err("renew_user_plan", uid, 400) @@
                        [months |-> months])
      ELSE
        LET user == users[uid]
            current_expiry == strptime(user.plan_expiry_date)
            new_expiry ==
                [current_expiry EXCEPT
                   !.date = relativedelta_months(current_expiry.date, months)]
            count == invoice_count(today)
            invoice == new_invoice_row(uid, user, months, new_expiry, count,
                           IF pdf_ok THEN "pdf" ELSE None)
            body == [ op |-> "renew_user_plan", user |-> uid, code |-> 200,
                      months |-> months,
                      new_expiry_date |-> strftime(new_expiry),
                      action |-> IF months < 0 THEN "reduced"
                                 ELSE "extended" ]
        IN  IF reduction_below_now(months, new_expiry)
            THEN Reject(Err("renew_user_plan", uid, 400) @@
                        [months |-> months])
            ELSE IF ~generates_invoice(months)
            THEN /\ users' = [users EXCEPT
                                ![uid] = renewed_user(user, new_expiry)]
                 /\ Serve(body @@ [invoice_number |-> None,
                                   invoice_id |-> 0])
                 /\ UNCHANGED <<clock, plans, installations, invoices,
                                ledger, reqs>>
            ELSE IF ~plan_exists(user.broadband_plan_id)
            THEN Reject(Err("renew_user_plan", uid, 404) @@
                        [months |-> months])
            ELSE IF \E i \in DOMAIN invoices :
                      invoices[i].invoice_number = invoice.invoice_number
            THEN \* unique constraint on invoice_number: the commit raises
                 Reject(Err("renew_user_plan", uid, 500) @@
                        [months |-> months])
            ELSE /\ users' = [users EXCEPT
                                ![uid] = renewed_user(user, new_expiry)]
                 /\ invoices' = Append(invoices, invoice)
                 /\ Serve(body @@
                          [invoice_number |-> invoice.invoice_number,
                           invoice_id |-> Len(invoices) + 1])
                 /\ UNCHANGED <<clock, plans, installations, ledger, reqs>>

\* POST /api/invoice/generate/{user_id}: the Invoice constructor is called
\* with keyword arguments the model class does not have (cs_id,
\* customer_name, ...), the TypeError is caught and answered 500, and no
\* row is added
generate_invoice_for_user ==
    /\ accepting
    /\ \E uid \in 1 .. MaxUsers :
         IF uid \notin UserIds
         THEN Reject(Err("generate_invoice_for_user", uid, 404))
         ELSE Reject(Err("generate_invoice_for_user", uid, 500))

\* ------------------------------------------------------------------------
\* Installation workflow
\* ------------------------------------------------------------------------
\* PUT /api/engineer/update-task/{user_id}
\* the installation row after the schedule branch: created when the
\* subscriber has none, otherwise re-dated
scheduled_installation(installation, scheduled_dt) ==
    [ status |-> "Installation Scheduled",
      scheduled_date |-> scheduled_dt,
      completed_date |->
          IF installation = NoInst THEN NoDate
          ELSE installation.completed_date ]

\* variant: the first period is thirty days, not a calendar month
completed_user_thirty_days(user) ==
    [user EXCEPT
       !.status = "Active",
       !.is_plan_active = TRUE,
       !.plan_start_date = today,
       !.plan_expiry_date = timedelta_days(today, 30),
       !.payment_due_date = timedelta_days(today, 15)]

\* variant: a plan that runs beyond the first period is not cut back
completed_user_keeping_expiry(user) ==
    LET plan_expiry == relativedelta_months(today, 1)
    IN  [user EXCEPT
           !.status = "Active",
           !.is_plan_active = TRUE,
           !.plan_start_date = today,
           !.plan_expiry_date =
               IF StrLT(plan_expiry, user.plan_expiry_date)
               THEN user.plan_expiry_date ELSE plan_expiry,
           !.payment_due_date = timedelta_days(today, 15)]

\* the user row after the completion branch
completed_user(user) ==
    LET plan_start == today
        plan_expiry == relativedelta_months(plan_start, 1)
        payment_due == timedelta_days(plan_start, 15)
    IN  [user EXCEPT
           !.status = "Active",
           !.is_plan_active = TRUE,
           !.plan_start_date = plan_start,
           !.plan_expiry_date = plan_expiry,
           !.payment_due_date = payment_due]

\* the body returned after the commit: message carries the requested task
\* status, the other fields are read from the committed user row; a refusal
\* is recorded with the requested task status as well
task_response(uid, status, user) ==
    [ op |-> "update_installation_task", user |-> uid, code |-> 200,
      message |-> status,
      new_status |-> user.status,
      is_plan_active |-> user.is_plan_active,
      plan_start_date |-> user.plan_start_date,
      plan_expiry_date |-> user.plan_expiry_date,
      payment_due_date |-> user.payment_due_date ]

update_installation_task ==
    /\ accepting
    /\ \E uid \in 1 .. MaxUsers,
       status \in TaskStatusInputs,
       scheduled_date \in ScheduleInputs :
      IF uid \notin UserIds
      THEN Reject(Err("update_installation_task", uid, 404) @@
                        [message |-> status])
      ELSE IF status \notin { "Installation Scheduled", "Completed" }
      THEN Reject(Err("update_installation_task", uid, 400) @@
                        [message |-> status])
      ELSE IF status = "Installation Scheduled"
      THEN IF scheduled_date = NoDate
           THEN Reject(Err("update_installation_task", uid, 400) @@
                        [message |-> status])
           ELSE /\ users' = [users EXCEPT
                               ![uid].status = "Installation Scheduled"]
                /\ installations' =
                     [installations EXCEPT ![uid] =
                        scheduled_installation(installations[uid],
                                               scheduled_date)]
                /\ Serve(task_response(uid, status, users'[uid]))
                /\ UNCHANGED <<clock, plans, invoices, ledger, reqs>>
      ELSE /\ users' = [users EXCEPT ![uid] = completed_user(users[uid])]
           /\ installations' =
                IF installations[uid] = NoInst THEN installations
                ELSE [installations EXCEPT
                        ![uid].status = "Completed",
                        ![uid].completed_date = today]
           /\ Serve(task_response(uid, status, users'[uid]))
           /\ UNCHANGED <<clock, plans, invoices, ledger, reqs>>

\* ------------------------------------------------------------------------
\* Expiry sweeper
\* ------------------------------------------------------------------------
\* variant: a plan that expires today is not yet selected
expired_users_strict ==
    { uid \in UserIds :
        /\ StrLT(users[uid].plan_expiry_date, today)
        /\ users[uid].is_plan_active }

\* rows selected by the sweeper's query
expired_users ==
    { uid \in UserIds :
        /\ StrLE(users[uid].plan_expiry_date, today)
        /\ users[uid].is_plan_active }

\* variant: the active flag of an expired row is left set
expired_user_still_active(user) ==
    [user EXCEPT !.status = "Expired",
                 !.payment_status = "Pending",
                 !.payment_due_date = timedelta_days(today, 15)]

\* a selected row as assigned by the sweeper's loop
expired_user(user) ==
    [user EXCEPT !.is_plan_active = FALSE,
                 !.status = "Expired",
                 !.payment_status = "Pending",
                 !.payment_due_date = timedelta_days(today, 15)]

\* the users table as assigned by the sweeper before its commit
swept_users ==
    [uid \in UserIds |->
       IF uid \in expired_users THEN expired_user(users[uid])
       ELSE users[uid]]

\* variant: the rows assigned before a database error stay written
sweeper_committed_despite_error(db_ok) == swept_users

\* the users table after the sweeper's commit, or after its rollback when
\* the database raised
sweeper_committed(db_ok) == IF db_ok THEN swept_users ELSE users

\* the sweeper's return value
sweeper_result(db_ok) ==
    IF db_ok
    THEN [op |-> "check_and_expire_plans", user |-> 0, code |-> 200,
          success |-> TRUE, expired_count |-> Cardinality(expired_users)]
    ELSE [op |-> "check_and_expire_plans", user |-> 0, code |-> 200,
          success |-> FALSE]

\* check_and_expire_plans() run by POST /api/users/check-expired-plans
check_and_expire_plans ==
    /\ accepting
    /\ \E db_ok \in BOOLEAN :
         /\ users' = sweeper_committed(db_ok)
         /\ Serve(sweeper_result(db_ok))
    /\ UNCHANGED <<clock, plans, installations, invoices, ledger, reqs>>

\* variant: the daily job runs but its assignments are never committed
scheduled_run_without_commit == UNCHANGED vars

\* check_and_expire_plans() run by the scheduler's daily cron job: it is not
\* an API request and its return value is dropped
scheduled_check_and_expire_plans ==
    /\ \E db_ok \in BOOLEAN : users' = sweeper_committed(db_ok)
    /\ UNCHANGED <<clock, plans, installations, invoices, ledger, resp,
                   served, reqs>>

Next ==
    \/ Tick
    \/ create_user
    \/ add_new_customer
    \/ update_plan
    \/ update_user
    \/ update_user_billing
    \/ update_billing_history
    \/ delete_billing_history
    \/ renew_user_plan
    \/ generate_invoice_for_user
    \/ update_installation_task
    \/ check_and_expire_plans

Spec == Init /\ [][Next]_vars

\* the state after POST /api/users for plan p1 and a billing update to plan
\* p2 that verified the payment and recorded 200 rupees still pending
InitBilled ==
    /\ today = StartDate
    /\ tod = 0
    /\ tz = 0
    /\ plans = [p \in PlanIds |->
                  [name |-> p, price |-> IF p = "p1" THEN 99900 ELSE 79900]]
    /\ users = << [admin_user("p1", StartDate) EXCEPT
                     !.broadband_plan_id = "p2",
                     !.payment_status = "VerifiedByCash",
                     !.old_pending_amount = 200] >>
    /\ installations = <<NoInst>>
    /\ invoices = << >>
    /\ ledger = << [ id |-> 1,
                     user_id |-> 1,
                     previous_payment_status |-> "Pending",
                     new_payment_status |-> "VerifiedByCash",
                     previous_old_pending_amount |-> 0,
                     new_old_pending_amount |-> 200,
                     previous_payment_due_date |-> <<2024, 1, 15>>,
                     new_payment_due_date |-> <<2024, 1, 15>>,
                     previous_plan_id |-> "p1",
                     previous_plan_name |-> "p1",
                     new_plan_id |-> "p2",
                     new_plan_name |-> "p2",
                     change_type |-> "billing_update" ] >>
    /\ resp = NoResp
    /\ served = 0
    /\ reqs = << >>

\* the requests on the existing subscriber; no further subscriber is
\* onboarded
NextBilled ==
    \/ Tick
    \/ update_plan
    \/ update_user
    \/ update_user_billing
    \/ update_billing_history
    \/ delete_billing_history
    \/ renew_user_plan
    \/ generate_invoice_for_user
    \/ update_installation_task
    \/ check_and_expire_plans

\* the API serving a subscriber that already carries a pending amount
SpecBilled == InitBilled /\ [][NextBilled]_vars

\* the API together with the scheduler: the daily job keeps being run, and
\* a run that would change a row is eventually a run that commits
NextLive ==
    \/ Next
    \/ scheduled_check_and_expire_plans

SpecLive ==
    Init /\ [][NextLive]_vars /\ WF_vars(scheduled_check_and_expire_plans)

SpecLocal == InitLocal /\ [][Next]_vars

SpecAhead == InitAhead /\ [][Next]_vars

\* ------------------------------------------------------------------------
\* Concurrent renewals: each request first reads the subscriber and counts
\* today's invoices, and later flushes and commits
\* ------------------------------------------------------------------------
IdleReq == [pc |-> "idle"]

InitConc ==
    /\ today = StartDate
    /\ tod \in 0 .. SlotsPerDay - 1
    /\ tz = 0
    /\ plans = [p \in PlanIds |->
                  [name |-> p, price |-> IF p = "p1" THEN 99900 ELSE 79900]]
    /\ users = <<admin_user("p1", StartDate), admin_user("p2", StartDate)>>
    /\ installations = <<NoInst, NoInst>>
    /\ invoices = << >>
    /\ ledger = << >>
    /\ resp = NoResp
    /\ served = 0
    /\ reqs = [r \in 1 .. NumReqs |-> IdleReq]

\* renew_user_plan up to the plan lookup: the subscriber row is read and the
\* new expiry derived from it; the queries run outside any transaction and
\* take no lock
renew_begin(r) ==
    /\ reqs[r].pc = "idle"
    /\ \E uid \in UserIds, months \in { m \in MonthsInputs : m > 0 } :
         LET user == users[uid]
             current_expiry == strptime(user.plan_expiry_date)
             new_expiry ==
                 [current_expiry EXCEPT
                    !.date = relativedelta_months(current_expiry.date,
                                                  months)]
         IN  /\ plan_exists(user.broadband_plan_id)
             /\ reqs' = [reqs EXCEPT ![r] =
                           [ pc |-> "read", uid |-> uid,
                             months |-> months, user |-> user,
                             new_expiry |-> new_expiry ]]
    /\ UNCHANGED <<clock, db, resp, served>>

\* renew_user_plan's count query: the invoices of today are counted
renew_count(r) ==
    /\ reqs[r].pc = "read"
    /\ reqs' = [reqs EXCEPT ![r] =
                  [ pc |-> "counted", uid |-> reqs[r].uid,
                    months |-> reqs[r].months, user |-> reqs[r].user,
                    new_expiry |-> reqs[r].new_expiry,
                    count |-> invoice_count(today) ]]
    /\ UNCHANGED <<clock, db, resp, served>>

\* the stored row after the flush of a session that loaded the row as
\* loaded and assigned it to be written: the UPDATE sets the columns whose
\* assigned value differs from the loaded one and leaves the others as
\* stored
flushed_row(stored, loaded, written) ==
    [f \in DOMAIN stored |->
       IF written[f] # loaded[f] THEN written[f] ELSE stored[f]]

\* renew_user_plan from db.add(new_invoice) to the commit
renew_commit(r) ==
    /\ reqs[r].pc = "counted"
    /\ \E pdf_ok \in BOOLEAN :
         LET q == reqs[r]
             invoice == new_invoice_row(q.uid, q.user, q.months,
                            q.new_expiry, q.count,
                            IF pdf_ok THEN "pdf" ELSE None)
             written == renewed_user(q.user, q.new_expiry)
         IN  IF \E i \in DOMAIN invoices :
                   invoices[i].invoice_number = invoice.invoice_number
             THEN /\ reqs' = [reqs EXCEPT ![r] =
                                [pc |-> "done", code |-> 500,
                                 uid |-> q.uid, months |-> q.months]]
                  /\ UNCHANGED <<users, invoices>>
             ELSE /\ users' = [users EXCEPT
                      ![q.uid] = flushed_row(users[q.uid], q.user, written)]
                  /\ invoices' = Append(invoices, invoice)
                  /\ reqs' = [reqs EXCEPT ![r] =
                                [pc |-> "done", code |-> 200,
                                 uid |-> q.uid, months |-> q.months,
                                 invoice_number |-> invoice.invoice_number]]
    /\ UNCHANGED <<clock, plans, installations, ledger, resp, served>>

NextConc ==
    \/ \E r \in 1 .. NumReqs : renew_begin(r)
    \/ \E r \in 1 .. NumReqs : renew_count(r)
    \/ \E r \in 1 .. NumReqs : renew_commit(r)

SpecConc == InitConc /\ [][NextConc]_vars

\* ------------------------------------------------------------------------
\* The sweeper running beside concurrent renewals
\* ------------------------------------------------------------------------
\* position of the sweeper run after the renewal requests in reqs
Sweeper == NumReqs + 1

\* subscriber 1 has expired yesterday and is still active, subscriber 2
\* expires next month
InitRace ==
    /\ today = StartDate
    /\ tod \in 0 .. SlotsPerDay - 1
    /\ tz = 0
    /\ plans = [p \in PlanIds |->
                  [name |-> p, price |-> IF p = "p1" THEN 99900 ELSE 79900]]
    /\ users = <<admin_user("p1", <<2023, 11, 30>>),
                 admin_user("p2", StartDate)>>
    /\ installations = <<NoInst, NoInst>>
    /\ invoices = << >>
    /\ ledger = << >>
    /\ resp = NoResp
    /\ served = 0
    /\ reqs = [r \in 1 .. Sweeper |-> IdleReq]

\* check_and_expire_plans up to the end of its query: the rows of the
\* expired subscribers are loaded into the session
sweep_begin ==
    /\ reqs[Sweeper].pc = "idle"
    /\ reqs' = [reqs EXCEPT ![Sweeper] =
                  [ pc |-> "scanned",
                    rows |-> [uid \in expired_users |-> users[uid]] ]]
    /\ UNCHANGED <<clock, db, resp, served>>

\* check_and_expire_plans from its loop to the commit
sweep_commit ==
    /\ reqs[Sweeper].pc = "scanned"
    /\ LET rows == reqs[Sweeper].rows
       IN  /\ users' = [uid \in UserIds |->
                          IF uid \in DOMAIN rows
                          THEN flushed_row(users[uid], rows[uid],
                                           expired_user(rows[uid]))
                          ELSE users[uid]]
           /\ reqs' = [reqs EXCEPT ![Sweeper] =
                         [ pc |-> "done", code |-> 200,
                           expired_count |-> Cardinality(DOMAIN rows) ]]
    /\ UNCHANGED <<clock, plans, installations, invoices, ledger, resp,
                   served>>

NextRace ==
    \/ \E r \in 1 .. NumReqs : renew_begin(r)
    \/ \E r \in 1 .. NumReqs : renew_count(r)
    \/ \E r \in 1 .. NumReqs : renew_commit(r)
    \/ sweep_begin
    \/ sweep_commit

SpecRace == InitRace /\ [][NextRace]_vars

\* ------------------------------------------------------------------------
\* Properties
\* ------------------------------------------------------------------------
\* the step answers a renewal request for m months on subscriber uid
RenewalAnswered(uid, m) ==
    /\ served' = served + 1
    /\ resp'.op = "renew_user_plan"
    /\ resp'.user = uid
    /\ resp'.months = m

\* calendar-month addition: same day of month in the month that lies m
\* months later, or the last day of that month when it is shorter
add_calendar_months(d, m) ==
    LET idx == d[1] * 12 + (d[2] - 1) + m
        y == idx \div 12
        mo == (idx % 12) + 1
        last == monthrange(y, mo)
    IN  <<y, mo, IF d[3] > last THEN last ELSE d[3]>>

LastInvoice == invoices[Len(invoices)]

\* C1: in every reachable state, every subscriber with is_plan_active = true
\* has status = Active.
C1_ActiveFlagImpliesActiveStatus ==
    \A uid \in UserIds :
        users[uid].is_plan_active => users[uid].status = "Active"

StatusEdges ==
    { <<"Pending Installation", "Installation Scheduled">>,
      <<"Installation Scheduled", "Active">>,
      <<"Active", "Expired">>,
      <<"Expired", "Active">>,
      <<"Active", "Suspended">> }

\* C2: a subscriber's status changes only along the edges Pending
\* Installation -> Installation Scheduled -> Active <-> Expired and
\* Active -> Suspended, and a renewal changes a subscriber only when its
\* status is Active or Expired.
C2_StatusFollowsLifecycleEdges ==
    [][ /\ \A uid \in UserIds :
              users'[uid].status # users[uid].status
                  => <<users[uid].status, users'[uid].status>> \in StatusEdges
        /\ \A uid \in UserIds :
              ( /\ served' = served + 1
                /\ resp'.op = "renew_user_plan"
                /\ users'[uid] # users[uid] )
                  => users[uid].status \in { "Active", "Expired" } ]_vars

\* C3: every successful extension by m months stores and returns
\* add_calendar_months(old plan_expiry_date, m); Jan 31 + 1 month is Feb 28
\* in a non-leap year and Feb 29 in a leap year.
C3_ExtensionAddsCalendarMonths ==
    [][ \A uid \in UserIds, m \in 1 .. 12 :
          (RenewalAnswered(uid, m) /\ resp'.code = 200) =>
             LET old == users[uid].plan_expiry_date
                 new == users'[uid].plan_expiry_date
             IN  /\ new = add_calendar_months(old, m)
                 /\ resp'.new_expiry_date = new
                 /\ (old = <<2023, 1, 31>> /\ m = 1) => new = <<2023, 2, 28>>
                 /\ (old = <<2024, 1, 31>> /\ m = 1) => new = <<2024, 2, 29>>
      ]_vars

\* an extension of one month from Jan 31 has been answered with Feb 28
C3_Witness ==
    /\ resp.op = "renew_user_plan"
    /\ resp.code = 200
    /\ resp.months = 1
    /\ invoices # << >>
    /\ LastInvoice.old_expiry_date = <<2023, 1, 31>>
    /\ resp.new_expiry_date = <<2023, 2, 28>>
    /\ users[resp.user].plan_expiry_date = <<2023, 2, 28>>

\* C4: after every successful renewal or reduction the subscriber has
\* is_plan_active = true, status = Active, last_renewal_date = today and
\* plan_expiry_date = the computed new expiry.
C4_RenewalActivates ==
    [][ \A uid \in UserIds, m \in MonthsInputs :
          (RenewalAnswered(uid, m) /\ resp'.code = 200) =>
             /\ users'[uid].is_plan_active
             /\ users'[uid].status = "Active"
             /\ users'[uid].last_renewal_date = today
             /\ users'[uid].plan_expiry_date =
                    add_calendar_months(users[uid].plan_expiry_date, m)
      ]_vars

\* a reduction has been accepted and the subscriber is active
C4_Witness ==
    /\ resp.op = "renew_user_plan"
    /\ resp.code = 200
    /\ resp.months < 0
    /\ resp.action = "reduced"
    /\ users[resp.user].is_plan_active
    /\ users[resp.user].status = "Active"
    /\ users[resp.user].last_renewal_date = today

\* C5: a reduction whose computed new expiry lies before today is answered
\* 400 and leaves the subscriber, the invoices and the ledger unchanged.
C5_RejectedReductionChangesNothing ==
    [][ \A uid \in UserIds, m \in MonthsInputs :
          ( /\ RenewalAnswered(uid, m)
            /\ m < 0
            /\ StrLT(add_calendar_months(users[uid].plan_expiry_date, m),
                     today) )
            => /\ resp'.code = 400
               /\ users' = users
               /\ invoices' = invoices
               /\ ledger' = ledger
      ]_vars

\* a reduction by two months of a plan that expires in less than two
\* months has been answered 400
C5_Witness ==
    /\ resp.op = "renew_user_plan"
    /\ resp.code = 400
    /\ resp.months = -2
    /\ resp.user \in UserIds
    /\ StrLE(today, users[resp.user].plan_expiry_date)
    /\ StrLT(users[resp.user].plan_expiry_date,
             add_calendar_months(today, 2))
    /\ StrLT(add_calendar_months(users[resp.user].plan_expiry_date, -2),
             today)

\* C6: a reduction is rejected exactly when the computed new expiry date is
\* strictly earlier than today's date; a new expiry date equal to today is
\* accepted.
C6_ReductionRejectedIffBeforeToday ==
    [][ \A uid \in UserIds, m \in MonthsInputs :
          (RenewalAnswered(uid, m) /\ m < 0) =>
             ( resp'.code = 400 <=>
                 StrLT(add_calendar_months(users[uid].plan_expiry_date, m),
                       today) )
      ]_vars

\* C7: for every extension, subtotal = plan price x months + old pending
\* amount, gst_amount is subtotal x 18 / 100 rounded to the hundredth and
\* total_amount = subtotal + gst_amount; 999 x 1 + 0 gives 999.00 / 179.82 /
\* 1178.82 and 799 x 2 + 200 gives 1798.00 / 323.64 / 2121.64.
C7_InvoiceAmounts ==
    [][ \A uid \in UserIds, m \in 1 .. 12 :
          (RenewalAnswered(uid, m) /\ resp'.code = 200) =>
             LET price == plans[users[uid].broadband_plan_id].price
                 pending == users[uid].old_pending_amount
                 inv == invoices'[Len(invoices')]
             IN  /\ Len(invoices') = Len(invoices) + 1
                 /\ inv.subtotal = price * m + pending * 100
                 /\ inv.gst_amount * 100 - inv.subtotal * 18 \in -50 .. 50
                 /\ inv.total_amount = inv.subtotal + inv.gst_amount
                 /\ (price = 99900 /\ m = 1 /\ pending = 0) =>
                       /\ inv.subtotal = 99900
                       /\ inv.gst_amount = 17982
                       /\ inv.total_amount = 117882
                 /\ (price = 79900 /\ m = 2 /\ pending = 200) =>
                       /\ inv.subtotal = 179800
                       /\ inv.gst_amount = 32364
                       /\ inv.total_amount = 212164
      ]_vars

\* the invoice of the scenario 799 x 2 + 200 has been written
C7_Witness ==
    \E i \in DOMAIN invoices :
        /\ invoices[i].months_renewed = 2
        /\ invoices[i].old_pending_amount = 200
        /\ invoices[i].subtotal = 179800
        /\ invoices[i].gst_amount = 32364
        /\ invoices[i].total_amount = 212164

\* C8 as stated: every stored invoice satisfies, over its own fields,
\* subtotal = plan_price x months_renewed + old_pending_amount.
C8_SubtotalFromStoredUnitPrice ==
    \A i \in DOMAIN invoices :
        invoices[i].subtotal =
            invoices[i].plan_price * invoices[i].months_renewed
              + invoices[i].old_pending_amount * 100

\* C8 amended: every stored invoice satisfies subtotal = plan_price +
\* old_pending_amount, where the stored plan_price is the plan's monthly
\* price at the time of billing multiplied by months_renewed.
C8_SubtotalFromStoredCharge ==
    [][ /\ \A i \in DOMAIN invoices' :
              invoices'[i].subtotal =
                  invoices'[i].plan_price
                    + invoices'[i].old_pending_amount * 100
        /\ \A uid \in UserIds, m \in 1 .. 12 :
              (RenewalAnswered(uid, m) /\ resp'.code = 200) =>
                  invoices'[Len(invoices')].plan_price =
                      plans[users[uid].broadband_plan_id].price
                        * invoices'[Len(invoices')].months_renewed
      ]_vars

\* an invoice for more than one month has been written
C8_Witness ==
    \E i \in DOMAIN invoices :
        /\ invoices[i].months_renewed > 1
        /\ invoices[i].subtotal =
               invoices[i].plan_price + invoices[i].old_pending_amount * 100

\* C9: when N extension requests run concurrently on one calendar day, all
\* N complete and their invoices carry the distinct, gap-free sequence
\* suffixes 1 .. N.
C9_ConcurrentNumbering ==
    (reqs # << >> /\ \A r \in DOMAIN reqs : reqs[r].pc = "done") =>
        /\ \A r \in DOMAIN reqs : reqs[r].code = 200
        /\ Len(invoices) = Len(reqs)
        /\ { invoices[i].invoice_number[2] : i \in DOMAIN invoices }
               = 1 .. Len(reqs)
        /\ \A i, j \in DOMAIN invoices :
               invoices[i].invoice_number = invoices[j].invoice_number
                   => i = j

\* invoices created on the local calendar day d
InvoicesOfDay(d) == { i \in DOMAIN invoices : invoices[i].invoice_date = d }

\* C10: in a serial execution the k-th renewal invoice of a calendar day is
\* numbered INV-<day>-<k>: every extension of a subscriber with a plan
\* succeeds with the sequence count-of-that-day's-invoices + 1.
C10_SerialNumbering ==
    [][ \A uid \in UserIds, m \in 1 .. 12 :
          ( /\ RenewalAnswered(uid, m)
            /\ plan_exists(users[uid].broadband_plan_id) )
            => /\ resp'.code = 200
               /\ resp'.invoice_number =
                     <<today, Cardinality(InvoicesOfDay(today)) + 1>>
      ]_vars

\* the step answers a request of operation op
Answered(op) ==
    /\ served' = served + 1
    /\ resp'.op = op

\* invoices' is invoices with exactly one row appended
OneInvoiceAppended ==
    /\ Len(invoices') = Len(invoices) + 1
    /\ SubSeq(invoices', 1, Len(invoices)) = invoices

C12_ExtensionCommitsAtomically ==
    [][ \A uid \in 1 .. MaxUsers, m \in 1 .. 12 :
          RenewalAnswered(uid, m) =>
             IF resp'.code = 200
             THEN LET inv == invoices'[Len(invoices')]
                  IN  /\ OneInvoiceAppended
                      /\ inv.user_id = uid
                      /\ inv.old_expiry_date = users[uid].plan_expiry_date
                      /\ inv.pdf_filepath \in { None, "pdf" }
                      /\ users'[uid].plan_expiry_date = inv.new_expiry_date
                      /\ users'[uid].is_plan_active
                      /\ users'[uid].status = "Active"
                      /\ users'[uid].last_renewal_date = inv.invoice_date
                      /\ \A other \in UserIds \ { uid } :
                            users'[other] = users[other]
             ELSE /\ users' = users
                  /\ invoices' = invoices
      ]_vars

\* an extension whose PDF rendering failed is committed with its invoice,
\* and a later extension whose insert failed has left no trace
C12_Witness ==
    /\ resp.op = "renew_user_plan"
    /\ resp.code = 500
    /\ resp.months > 0
    /\ Len(invoices) = 1
    /\ invoices[1].pdf_filepath = None
    /\ invoices[1].user_id = resp.user
    /\ users[resp.user].plan_expiry_date = invoices[1].new_expiry_date
    /\ users[resp.user].last_renewal_date = invoices[1].invoice_date

\* C13: once an invoice row exists, no step removes it or changes any of its
\* fields other than pdf_filepath.
C13_InvoicesImmutable ==
    [][ \A i \in DOMAIN invoices :
          /\ i \in DOMAIN invoices'
          /\ [invoices'[i] EXCEPT !.pdf_filepath = invoices[i].pdf_filepath]
                = invoices[i]
      ]_vars

\* the price of a plan has been edited after an invoice for that plan was
\* written, and the invoice still holds the price it was written with
C13_Witness ==
    /\ resp.op = "update_plan"
    /\ resp.code = 200
    /\ \E i \in DOMAIN invoices :
          /\ plan_exists(invoices[i].plan_id)
          /\ invoices[i].plan_price = 99900 * invoices[i].months_renewed
          /\ plans[invoices[i].plan_id].price = 33333

\* subscribers with is_plan_active = true and plan_expiry_date <= today
Eligible ==
    { uid \in UserIds :
        users[uid].is_plan_active
          /\ StrLE(users[uid].plan_expiry_date, today) }

\* the step is a sweeper run that returned success
SweeperSucceeded ==
    /\ Answered("check_and_expire_plans")
    /\ resp'.success

\* the step is a sweeper run that returned failure
SweeperFailed ==
    /\ Answered("check_and_expire_plans")
    /\ ~resp'.success

\* C14: a successful sweeper run leaves no subscriber eligible on that day,
\* and a successful run that finds no subscriber eligible reports
\* expired_count = 0 and changes no subscriber; so a second run on the same
\* day with nothing in between transitions nobody.
C14_SweeperIdempotent ==
    [][ SweeperSucceeded =>
          /\ Eligible' = { }
          /\ Eligible = { } => /\ resp'.expired_count = 0
                               /\ users' = users
      ]_vars

\* three requests were served: a subscriber was created with a plan already
\* expired, one sweeper run expired it, and a second run reported zero
C14_Witness ==
    /\ served = 3
    /\ resp.op = "check_and_expire_plans"
    /\ resp.success
    /\ resp.expired_count = 0
    /\ Len(users) = 1
    /\ users[1].status = "Expired"
    /\ ~users[1].is_plan_active
    /\ users[1].payment_due_date = timedelta_days(today, 15)

\* C15: a successful sweeper run changes exactly the subscribers that were
\* active with plan_expiry_date <= today: each gets is_plan_active = false,
\* status = Expired, payment_status = Pending and payment_due_date = today +
\* 15 days and keeps its other columns; every other subscriber and every
\* other table is unchanged; the returned count is the number changed.
C15_SweeperFrame ==
    [][ SweeperSucceeded =>
          /\ DOMAIN users' = DOMAIN users
          /\ \A uid \in UserIds :
               IF uid \in Eligible
               THEN /\ ~users'[uid].is_plan_active
                    /\ users'[uid].status = "Expired"
                    /\ users'[uid].payment_status = "Pending"
                    /\ users'[uid].payment_due_date =
                           timedelta_days(today, 15)
                    /\ users'[uid].old_pending_amount =
                           users[uid].old_pending_amount
                    /\ users'[uid].broadband_plan_id =
                           users[uid].broadband_plan_id
                    /\ users'[uid].plan_start_date =
                           users[uid].plan_start_date
                    /\ users'[uid].plan_expiry_date =
                           users[uid].plan_expiry_date
                    /\ users'[uid].last_renewal_date =
                           users[uid].last_renewal_date
               ELSE users'[uid] = users[uid]
          /\ resp'.expired_count =
                 Cardinality({ uid \in UserIds : users'[uid] # users[uid] })
          /\ resp'.expired_count = Cardinality(Eligible)
          /\ UNCHANGED <<plans, installations, invoices, ledger>>
      ]_vars

\* a run has expired a subscriber that owed 200 and had paid in cash: the
\* debt is kept and the payment status is back to Pending
C15_Witness ==
    /\ resp.op = "check_and_expire_plans"
    /\ resp.success
    /\ resp.expired_count = 1
    /\ ledger # << >>
    /\ ledger[Len(ledger)].new_payment_status = "VerifiedByCash"
    /\ LET u == users[ledger[Len(ledger)].user_id]
       IN  /\ u.status = "Expired"
           /\ ~u.is_plan_active
           /\ u.payment_status = "Pending"
           /\ u.old_pending_amount = 200
           /\ u.payment_due_date = timedelta_days(today, 15)

\* C16: a sweeper run that meets a database error returns success = false
\* and leaves every table as it was, so the eligible subscribers are still
\* eligible; and a successful run that follows a failed one expires every
\* subscriber that is eligible at its scan.
C16_SweeperAllOrNothing ==
    [][ /\ SweeperFailed =>
              /\ resp'.code = 200
              /\ UNCHANGED <<plans, users, installations, invoices, ledger>>
              /\ Eligible' = Eligible
        /\ ( /\ SweeperSucceeded
             /\ resp.op = "check_and_expire_plans"
             /\ ~resp.success ) =>
              /\ \A uid \in Eligible :
                    /\ ~users'[uid].is_plan_active
                    /\ users'[uid].status = "Expired"
              /\ resp'.expired_count = Cardinality(Eligible)
      ]_vars

\* a run has failed while a subscriber was eligible, and that subscriber is
\* still active and not expired
C16_Witness ==
    /\ resp.op = "check_and_expire_plans"
    /\ ~resp.success
    /\ Eligible # { }
    /\ \A uid \in Eligible : users[uid].status # "Expired"

\* subscriber uid is out of the sweeper's reach: expired and inactive, or
\* holding a plan that expires after today
ExpiredOrRenewed(uid) ==
    /\ uid \in UserIds
    /\ \/ ~users[uid].is_plan_active /\ users[uid].status = "Expired"
       \/ StrLT(today, users[uid].plan_expiry_date)

C18_ScheduleOnlyFromToday ==
    [][Answered("update_installation_task") =>
         IF resp'.code = 200
         THEN resp'.message = "Installation Scheduled" =>
                /\ StrLE(today, installations'[resp'.user].scheduled_date)
                /\ users'[resp'.user].status = "Installation Scheduled"
         ELSE UNCHANGED <<users, installations>>
      ]_vars


\* C19: a completion request sets status Active, is_plan_active,
\* plan_start_date = today, plan_expiry_date = today + 1 calendar month and
\* payment_due_date = today + 15 days (completed on 2023-12-31: expiry
\* 2024-01-31, due 2024-01-15), adds no invoice and no ledger entry, and
\* leaves payment_status and old_pending_amount as they were.
C19_CompletionActivates ==
    [][(/\ Answered("update_installation_task")
        /\ resp'.code = 200
        /\ resp'.message = "Completed") =>
         LET uid == resp'.user
             old == users[uid]
             new == users'[uid]
         IN  /\ new.status = "Active"
             /\ new.is_plan_active
             /\ new.plan_start_date = today
             /\ new.plan_expiry_date = add_calendar_months(today, 1)
             /\ new.payment_due_date = timedelta_days(today, 15)
             /\ today = <<2023, 12, 31>> =>
                    /\ new.plan_expiry_date = <<2024, 1, 31>>
                    /\ new.payment_due_date = <<2024, 1, 15>>
             /\ invoices' = invoices
             /\ ledger' = ledger
             /\ new.payment_status = old.payment_status
             /\ new.old_pending_amount = old.old_pending_amount
      ]_vars

\* an installation has been completed on 2023-12-31 for a subscriber whose
\* payment had been verified with an amount still pending; the only ledger
\* entry is the one of that billing update
C19_Witness ==
    /\ resp.op = "update_installation_task"
    /\ resp.code = 200
    /\ resp.message = "Completed"
    /\ resp.new_status = "Active"
    /\ users[resp.user].is_plan_active
    /\ users[resp.user].plan_start_date = <<2023, 12, 31>>
    /\ users[resp.user].plan_expiry_date = <<2024, 1, 31>>
    /\ users[resp.user].payment_due_date = <<2024, 1, 15>>
    /\ users[resp.user].payment_status = "VerifiedByCash"
    /\ users[resp.user].old_pending_amount = 200
    /\ invoices = << >>
    /\ Len(ledger) = 1
    /\ ledger[1].change_type = "billing_update"


\* a subscriber whose installation has not been completed
AwaitingInstallation(uid) ==
    /\ uid \in UserIds
    /\ users[uid].status \in { "Pending Installation",
                               "Installation Scheduled" }

\* C20: every step that adds a subscriber adds it with status Pending
\* Installation and is_plan_active = false, whichever onboarding operation
\* it is, and a subscriber awaiting installation becomes Active only by a
\* completion request.
C20_CreatedPendingInstallation ==
    [][/\ Len(users') > Len(users) =>
            /\ users'[Len(users')].status = "Pending Installation"
            /\ ~users'[Len(users')].is_plan_active
       /\ \A uid \in 1 .. MaxUsers :
            (AwaitingInstallation(uid) /\ users'[uid].status = "Active") =>
                /\ Answered("update_installation_task")
                /\ resp'.code = 200
                /\ resp'.message = "Completed"
      ]_vars


\* C21: in every reachable state, every subscriber's plan_expiry_date is on
\* or after its plan_start_date.
C21_ExpiryNotBeforeStart ==
    \A uid \in UserIds :
        StrLE(users[uid].plan_start_date, users[uid].plan_expiry_date)


\* C22: every subscriber's old_pending_amount is >= 0 in every reachable
\* state: a subscriber is created with 0, only a successful billing update
\* writes the field, and a billing update asking for a negative amount is
\* refused and changes neither the subscribers nor the ledger.
C22_PendingAmountNonNegative ==
    /\ [](\A uid \in UserIds : users[uid].old_pending_amount >= 0)
    /\ [][/\ Len(users') > Len(users) =>
                users'[Len(users')].old_pending_amount = 0
          /\ \A uid \in UserIds :
                users'[uid].old_pending_amount #
                    users[uid].old_pending_amount =>
                  /\ Answered("update_user_billing")
                  /\ resp'.code = 200
                  /\ resp'.user = uid
          /\ (/\ Answered("update_user_billing")
              /\ resp'.billing_data.old_pending_amount < 0) =>
                  /\ resp'.code # 200
                  /\ UNCHANGED <<users, ledger>>
         ]_vars

\* a billing update asking for -1 has just been refused for a subscriber
\* that holds a positive amount written by an earlier billing update
C22_Witness ==
    /\ resp.op = "update_user_billing"
    /\ resp.code = 422
    /\ resp.billing_data.old_pending_amount = -1
    /\ resp.billing_data.payment_status \in PaymentStatuses
    /\ resp.user \in UserIds
    /\ users[resp.user].old_pending_amount = 200
    /\ Len(ledger) = 1


\* name of the plan a subscriber row refers to, None when there is no such
\* plan
plan_name_of(user) ==
    IF plan_exists(user.broadband_plan_id)
    THEN plans[user.broadband_plan_id].name
    ELSE None

\* C23: every successful billing update of an existing subscriber appends
\* exactly one ledger entry, of change_type billing_update, whose
\* previous_* fields are the subscriber's payment status, pending amount,
\* due date and plan id and name before the call and whose new_* fields are
\* the values stored on the subscriber after it, the stored plan id
\* included.
C23_LedgerEntryMatchesUpdate ==
    [][(Answered("update_user_billing") /\ resp'.code = 200) =>
         LET uid == resp'.user
             old == users[uid]
             new == users'[uid]
             entry == ledger'[Len(ledger')]
         IN  /\ Len(ledger') = Len(ledger) + 1
             /\ \A i \in DOMAIN ledger : ledger'[i] = ledger[i]
             /\ entry.user_id = uid
             /\ entry.change_type = "billing_update"
             /\ entry.previous_payment_status = old.payment_status
             /\ entry.previous_old_pending_amount = old.old_pending_amount
             /\ entry.previous_payment_due_date = old.payment_due_date
             /\ entry.previous_plan_id = old.broadband_plan_id
             /\ entry.previous_plan_name = plan_name_of(old)
             /\ entry.new_payment_status = new.payment_status
             /\ entry.new_old_pending_amount = new.old_pending_amount
             /\ entry.new_payment_due_date = new.payment_due_date
             /\ entry.new_plan_id = new.broadband_plan_id
             /\ entry.new_plan_name = plan_name_of(new)
      ]_vars


\* C24: the ledger is append-only: every step keeps every entry already
\* written, in place and with all its fields, so a later ledger always
\* contains every earlier entry unchanged.
C24_LedgerAppendOnly ==
    [][/\ Len(ledger') >= Len(ledger)
       /\ \A i \in DOMAIN ledger : ledger'[i] = ledger[i]
      ]_vars


\* the operations behind Depends(get_current_admin)
AdminOps ==
    { "create_user", "update_plan", "update_user", "update_user_billing",
      "update_billing_history", "delete_billing_history", "renew_user_plan",
      "generate_invoice_for_user", "check_and_expire_plans" }

\* subscriber uid's billing fields differ between the two states of a step
BillingFieldsChanged(uid) ==
    \/ users'[uid].broadband_plan_id # users[uid].broadband_plan_id
    \/ users'[uid].payment_status # users[uid].payment_status
    \/ users'[uid].old_pending_amount # users[uid].old_pending_amount
    \/ users'[uid].payment_due_date # users[uid].payment_due_date

\* C25: every administrator request that commits a change of a subscriber's
\* plan id, payment status, old pending amount or payment due date appends,
\* in the same step, one ledger entry for that subscriber.
C25_BillingChangeIsLedgered ==
    [][\A uid \in UserIds :
          (/\ served' = served + 1
           /\ resp'.op \in AdminOps
           /\ BillingFieldsChanged(uid)) =>
              /\ Len(ledger') = Len(ledger) + 1
              /\ ledger'[Len(ledger')].user_id = uid
      ]_vars


\* the requests that have extended subscriber uid
Extended(uid) ==
    { r \in DOMAIN reqs :
        reqs[r].pc = "done" /\ reqs[r].code = 200 /\ reqs[r].uid = uid }

\* the expiry dates that two extensions of m1 and m2 months leave when one
\* is applied after the other, or both in one addition
SerialExpiries(expiry, m1, m2) ==
    { relativedelta_months(relativedelta_months(expiry, m1), m2),
      relativedelta_months(relativedelta_months(expiry, m2), m1),
      add_calendar_months(expiry, m1 + m2) }

\* C26: when two concurrent extensions of m1 and m2 months of one
\* subscriber have both succeeded, and no other request has extended it,
\* the subscriber's plan_expiry_date is the original expiry plus m1 + m2
\* months, however the requests interleaved.
C26_NoLostUpdate ==
    \A uid \in UserIds :
        \A r1, r2 \in Extended(uid) :
            (r1 # r2 /\ Extended(uid) = { r1, r2 }) =>
                users[uid].plan_expiry_date \in
                    SerialExpiries(admin_user("p1", StartDate).plan_expiry_date,
                                   reqs[r1].months, reqs[r2].months)


\* C27: a request that fails validation or lookup is answered with an
\* error and commits nothing: a renewal of 0 months, a renewal of an
\* unknown subscriber, an extension of a subscriber whose plan does not
\* exist, and a billing update naming a plan id that does not exist each
\* leave the subscribers, the ledger and the invoices as they were.
C27_FailedRequestCommitsNothing ==
    [][/\ \A uid \in 1 .. MaxUsers, m \in MonthsInputs :
            (/\ RenewalAnswered(uid, m)
             /\ \/ m = 0
                \/ uid \notin UserIds
                \/ /\ m > 0
                   /\ uid \in UserIds
                   /\ ~plan_exists(users[uid].broadband_plan_id)) =>
                /\ resp'.code \in { 400, 404 }
                /\ UNCHANGED <<users, ledger, invoices>>
       /\ (/\ Answered("update_user_billing")
           /\ ~plan_exists(resp'.billing_data.broadband_plan_id)) =>
                /\ resp'.code # 200
                /\ UNCHANGED <<users, ledger, invoices>>
      ]_vars


\* C28: when a sweeper run and extensions of a subscriber run concurrently,
\* no interleaving reaches a committed state in which the subscriber is
\* Expired and inactive while its plan_expiry_date is later than today.
C28_NoExpiredWithFutureExpiry ==
    \A uid \in UserIds :
        ~ ( /\ users[uid].status = "Expired"
            /\ ~users[uid].is_plan_active
            /\ StrLT(today, users[uid].plan_expiry_date) )


\* the last request served was a successful extension of subscriber uid
JustExtended(uid) ==
    /\ resp.op = "renew_user_plan"
    /\ resp.code = 200
    /\ resp.user = uid
    /\ resp.months > 0

\* C29: a successful extension leaves the subscriber's old_pending_amount,
\* payment_status and payment_due_date as they were and bills the pending
\* amount in its invoice without clearing it, so an extension that follows
\* another extension of the same subscriber bills the same amount again.
C29_ExtensionKeepsPendingAmount ==
    [][\A uid \in UserIds, m \in MonthsInputs :
          (RenewalAnswered(uid, m) /\ resp'.code = 200 /\ m > 0) =>
             LET invoice == invoices'[Len(invoices')]
             IN  /\ users'[uid].old_pending_amount =
                        users[uid].old_pending_amount
                 /\ users'[uid].payment_status = users[uid].payment_status
                 /\ users'[uid].payment_due_date =
                        users[uid].payment_due_date
                 /\ invoice.user_id = uid
                 /\ invoice.payment_status = "Paid"
                 /\ invoice.old_pending_amount =
                        users[uid].old_pending_amount
                 /\ JustExtended(uid) =>
                        invoice.old_pending_amount =
                            invoices[resp.invoice_id].old_pending_amount
      ]_vars

\* two extensions in a row have each billed the 200 rupees pending, and the
\* subscriber still carries them with its payment status and due date
C29_Witness ==
    /\ JustExtended(1)
    /\ Len(invoices) = 2
    /\ \A i \in DOMAIN invoices :
          /\ invoices[i].user_id = 1
          /\ invoices[i].payment_status = "Paid"
          /\ invoices[i].old_pending_amount = 200
    /\ users[1].old_pending_amount = 200
    /\ users[1].payment_status = "VerifiedByCash"
    /\ users[1].payment_due_date = <<2024, 1, 15>>


\* C30: a completion request checks nothing about the subscriber's current
\* status: for every existing subscriber, whatever its status, it answers
\* 200, overwrites plan_start_date with today and plan_expiry_date with
\* today + 1 month whatever expiry was stored, and leaves the subscriber
\* Active with is_plan_active, writing no invoice.
C30_CompletionHasNoPrecondition ==
    [][(/\ Answered("update_installation_task")
        /\ resp'.message = "Completed"
        /\ resp'.user \in UserIds) =>
          LET uid == resp'.user
          IN  /\ users[uid].status \in Statuses
              /\ resp'.code = 200
              /\ users'[uid].status = "Active"
              /\ users'[uid].is_plan_active
              /\ users'[uid].plan_start_date = today
              /\ users'[uid].plan_expiry_date = add_calendar_months(today, 1)
              /\ invoices' = invoices
      ]_vars

\* an installation has just been completed for a subscriber with a Paid
\* invoice for an extension to a later date: the stored expiry is now
\* earlier than the expiry the invoice was paid for
C30_Witness ==
    /\ resp.op = "update_installation_task"
    /\ resp.code = 200
    /\ resp.message = "Completed"
    /\ users[resp.user].plan_start_date = today
    /\ users[resp.user].plan_expiry_date = add_calendar_months(today, 1)
    /\ \E i \in DOMAIN invoices :
          /\ invoices[i].user_id = resp.user
          /\ invoices[i].payment_status = "Paid"
          /\ invoices[i].months_renewed > 1
          /\ StrLT(users[resp.user].plan_expiry_date,
                   invoices[i].new_expiry_date)

====
